---- MODULE Spec2Model ----
(***************************************************************************)
(* Model of ObjectStorage (main.py) with its collaborators FileCompressor  *)
(* (compressor.py), DigitalOceanStorage (digital_ocean.py) and FileSchema  *)
(* (schema.py).  Every call of compress_and_upload / download_and_decompress*)
(* is an asyncio task; a task yields only where it awaits something that   *)
(* really suspends (the aiofiles temporary-file context manager).          *)
(***************************************************************************)
EXTENDS Integers, Sequences, FiniteSets, TLC

\* ------------------------------------------------------------------ bounds
NumCalls == 2          \* concurrent calls (tasks) considered
MaxTok == 3            \* longest folder path, in tokens, of the key check

Calls == 1..NumCalls
TempNames == 1..NumCalls   \* names the temporary-file directory can hand out

\* ------------------------------------------------------------------ values
None == <<"None">>
Unbound == 0               \* a local variable that was never assigned
Absent == [codec |-> "absent", data |-> 0]   \* no file at that place
EmptyFile == [codec |-> "raw", data |-> 0]  \* a file that exists and holds no bytes
NoResult == <<"NoResult">> \* the call has not returned
True == <<"True">>
False == <<"False">>

\* ------------------------------------------------------------------ strings
\* A string is a sequence of tokens; the separator is the token "/" and no
\* other token contains it, so str.rstrip('/') and str.endswith('/') act on
\* whole tokens.
Sep == "/"
Dot == "."

\* a strip that drops one trailing separator only
RStripOneSep(s) ==
    IF s # <<>> /\ s[Len(s)] = Sep THEN SubSeq(s, 1, Len(s) - 1) ELSE s

RECURSIVE RStripSep(_)
\* str.rstrip('/'): drops every trailing separator, not only one
RStripSep(s) ==
    IF s # <<>> /\ s[Len(s)] = Sep THEN RStripSep(SubSeq(s, 1, Len(s) - 1)) ELSE s

\* main.py:77-79, the key compress_and_upload stores the blob under
UploadKey(folder_path, object_name, format) ==
    LET object_name_with_ext == object_name \o <<Dot, format>>
    IN  IF folder_path # <<>>
        THEN RStripSep(folder_path) \o <<Sep>> \o object_name_with_ext
        ELSE object_name_with_ext

\* main.py:122-125, the key download_and_decompress fetches
DownloadKey(folder_path, object_name) ==
    IF folder_path # <<>>
    THEN RStripSep(folder_path) \o <<Sep>> \o object_name
    ELSE object_name

\* digital_ocean.py:74, the URL store_object returns on success
ObjectUrl(key) == <<"https://", "aimleap-storage", ".blr1.digitaloceanspaces.com/">> \o key

\* ------------------------------------------------------------------ codecs
\* compressor.py:70-77, the format tags of the strategy table
Strategies == {"gz", "bz2", "xz", "lzma", "zlib", "zstd"}

\* compressor.py:19-54; xz and lzma are the same LzmaStrategy
Codec(format) == IF format \in {"xz", "lzma"} THEN "lzma" ELSE format

\* strategy.compress: the compressed bytes carry the codec that made them
StrategyCompress(format, content) == [codec |-> Codec(format), data |-> content.data]


\* strategy.decompress: fails on bytes another codec made, or corrupt bytes
CanDecompress(format, blob) == blob.codec = Codec(format)
StrategyDecompress(blob) == [codec |-> "raw", data |-> blob.data]

\* ------------------------------------------------------------------ inputs
Folders == {<<"data", Sep, "html">>}         \* main.py:159, 176 pass 'data/html'
Names == {<<"a.html">>, <<"b.html">>}        \* object names a download asks for
\* main.py:159: the call for the c-th file passes file.name as object_name
FileName(c) == <<"file", ToString(c)>>
Formats == {"zstd", "rar"}                   \* a tag of the table and one outside it
UploadFails == {"none", "tmp", "read", "compress", "upload", "persist"}
DownloadFails == {"none", "tmp", "fetch"}

\* the bytes of the local file the call c is given (main.py:159, one file per call)
SourceData(c) == [codec |-> "raw", data |-> c]
\* Path(input_file).stat().st_size
SizeOf(content) == <<"size", content.codec, content.data>>

\* the objects the bucket holds before any call runs
RemoteKey == <<"data", Sep, "html", Sep, "a.html">>
InitBucket == [k \in {RemoteKey} |-> StrategyCompress("zstd", [codec |-> "raw", data |-> NumCalls + 1])]

NoArg == [op |-> "none", object_name |-> <<>>, folder_path |-> <<>>,
          format |-> "zstd", fail |-> "none"]

\* ------------------------------------------------------------------ state
VARIABLES
    pc,               \* where each task stands
    arg,              \* the arguments (and the injected failure) of each call
    compressed_path,  \* the local compressed_path / temp_compressed of each call
    disk,             \* the temporary directory: name -> content or Absent
    outfile,          \* the output file of each download call: content or Absent
    bucket,           \* the remote bucket: key -> blob
    records,          \* the FileSchema records saved to the record sink
    result,           \* the value each call returned
    trace,            \* per call, what the call did to its temporary file
    probe             \* one application of a pure function: its inputs and its output

vars == <<pc, arg, compressed_path, disk, outfile, bucket, records, result, trace, probe>>

NoProbe == [fn |-> "none", folder_path |-> <<>>, object_name |-> <<>>,
            format |-> "zstd", done |-> FALSE, out |-> <<>>]

NoError == [type |-> "none", tags |-> {}]

NoTrace == [created |-> FALSE, unlinks |-> 0, missed |-> 0, atExit |-> "n/a",
            uploaded |-> FALSE, error |-> "none", read |-> FALSE, compressed |-> FALSE,
            format_error |-> NoError]

Init ==
    /\ pc = [c \in Calls |-> "idle"]
    /\ arg = [c \in Calls |-> NoArg]
    /\ compressed_path = [c \in Calls |-> Unbound]
    /\ disk = [p \in TempNames |-> Absent]
    /\ outfile = [c \in Calls |-> Absent]
    /\ bucket = InitBucket
    /\ records = {}
    /\ result = [c \in Calls |-> NoResult]
    /\ trace = [c \in Calls |-> NoTrace]
    /\ probe = NoProbe

\* ------------------------------------------------------------------ await
\* compressor.py:89,107 and digital_ocean.py:55,79,108 define compress, decompress,
\* store_object, list_objects and download_file with a plain "def": a call runs the whole
\* function and yields its return value (None, a str or a bool), and "await"
\* of such a value raises TypeError without suspending the task.
PlainFunctions == {"compress", "decompress", "store_object", "download_file",
                   "list_objects"}

AwaitRaisesIfCoroutine(callee) == FALSE

AwaitRaises(callee) == callee \in PlainFunctions


\* ------------------------------------------------------------------ one call's view
\* What the synchronous part of a call has done so far: the files, the bucket,
\* the records, the call's own trace, and how the call ended.
World(c) ==
    [disk |-> disk, bucket |-> bucket, records |-> records, outfile |-> outfile[c],
     tr |-> trace[c], outcome |-> "running", value |-> None]

\* Path(p).unlink() on a file that exists
Unlink(w, p) ==
    [w EXCEPT !.disk[p] = Absent, !.tr.unlinks = @ + 1]

Return(w, v) == [w EXCEPT !.outcome = "returned", !.value = v]
Raise(w, e) == [w EXCEPT !.outcome = "raised", !.tr.error = e]

\* ------------------------------------------------------------------ compressor.py
\* compressor.py:100-101, 118-119: the ValueError raised for a format outside the
\* table; its message joins the keys of the table
UnsupportedFormat == [type |-> "ValueError", tags |-> Strategies]

\* a compress that reads its input before it looks at the format
CompressReadsFirst(w, c, a, output_file) ==
    LET r == [w EXCEPT !.tr.read = TRUE]
    IN  IF a.fail = "read" THEN [w |-> r, raised |-> TRUE]
        ELSE IF a.format \notin Strategies
        THEN [w |-> [r EXCEPT !.tr.format_error = UnsupportedFormat], raised |-> TRUE]
        ELSE IF a.fail = "compress" THEN [w |-> r, raised |-> TRUE]
        ELSE [w |-> [r EXCEPT !.disk[output_file] = StrategyCompress(a.format, SourceData(c)),
                              !.tr.compressed = TRUE],
              raised |-> FALSE]

\* FileCompressor.compress(input_file, output_file, format): the format check,
\* _read_input, strategy.compress, _write_output; it returns None.
Compress(w, c, a, output_file) ==
    LET r == [w EXCEPT !.tr.read = TRUE]
    IN  IF a.format \notin Strategies
        THEN [w |-> [w EXCEPT !.tr.format_error = UnsupportedFormat], raised |-> TRUE]
        ELSE IF a.fail \in {"read", "compress"} THEN [w |-> r, raised |-> TRUE]
        ELSE [w |-> [r EXCEPT !.disk[output_file] = StrategyCompress(a.format, SourceData(c)),
                              !.tr.compressed = TRUE],
              raised |-> FALSE]

\* FileCompressor.decompress(input_file, output_file, format): the format check,
\* _read_input, strategy.decompress, _write_output; it returns None.
Decompress(w, a, input_file) ==
    LET r == [w EXCEPT !.tr.read = TRUE]
    IN  IF a.format \notin Strategies
        THEN [w |-> [w EXCEPT !.tr.format_error = UnsupportedFormat], raised |-> TRUE]
        ELSE IF ~CanDecompress(a.format, w.disk[input_file]) THEN [w |-> r, raised |-> TRUE]
        ELSE [w |-> [r EXCEPT !.outfile = StrategyDecompress(w.disk[input_file])],
              raised |-> FALSE]

\* ------------------------------------------------------------------ digital_ocean.py
\* DigitalOceanStorage.store_object: upload_file inside try/except; the URL on
\* success, None when the upload raised.
StoreObject(w, a, file_path, key) ==
    IF a.fail = "upload" THEN [w |-> w, url |-> None]
    ELSE [w |-> [w EXCEPT !.bucket = (key :> w.disk[file_path]) @@ w.bucket,
                          !.tr.uploaded = TRUE],
          url |-> ObjectUrl(key)]

\* DigitalOceanStorage.download_file: download_file inside try/except; True on
\* success, False when the download raised (no such key, or a failed transfer).
DownloadFile(w, a, key, file_path) ==
    IF key \notin DOMAIN w.bucket \/ a.fail = "fetch" THEN [w |-> w, success |-> FALSE]
    ELSE [w |-> [w EXCEPT !.disk[file_path] = w.bucket[key]], success |-> TRUE]

\* ------------------------------------------------------------------ schema.py
\* FileSchema(...) with the fields compress_and_upload passes (main.py:86-94).
\* What BaseSchema (pydb.core) checks and what save() does is outside the
\* repository: a failure of either is the injected failure "persist".
FileSchema(c, a, original_size, key, url, compressed_size) ==
    [file_name |-> c, original_file_size |-> original_size,
     file_compression_type |-> a.format, key |-> key, file_url |-> url,
     compressed_file_size |-> compressed_size]


\* ------------------------------------------------------------------ main.py
\* compress_and_upload, "except Exception" (main.py:97-101): it reads
\* compressed_path, which is unbound when the temporary file was never made.
UploadExceptNoUnlink(w, path) ==
    IF path = Unbound THEN Raise(w, "UnboundLocalError") ELSE Return(w, None)

UploadExcept(w, path) ==
    IF path = Unbound THEN Raise(w, "UnboundLocalError")
    ELSE IF w.disk[path] # Absent THEN Return(Unlink(w, path), None)
    ELSE Return(w, None)

\* a body that hands the temporary file to store_object before compressing
UploadTrySwapped(w0, c, a, path) ==
    LET key == UploadKey(a.folder_path, a.object_name, a.format)
        st == StoreObject(w0, a, path, key)
        cm == Compress(st.w, c, a, path)
    IN  IF AwaitRaises("store_object") THEN UploadExcept(st.w, path)
        ELSE UploadExcept(cm.w, path)

\* compress_and_upload from the statement after "async with" to the end of the
\* try block (main.py:73-96)
UploadTry(w0, c, a, path) ==
    LET cm == Compress(w0, c, a, path)
        compressed_size == None
        original_size == SizeOf(SourceData(c))
        key == UploadKey(a.folder_path, a.object_name, a.format)
        st == StoreObject(cm.w, a, path, key)
        w2 == Unlink(st.w, path)
        schema == FileSchema(c, a, original_size, key, st.url, compressed_size)
    IN  IF cm.raised \/ AwaitRaises("compress") THEN UploadExcept(cm.w, path)
        ELSE IF AwaitRaises("store_object") THEN UploadExcept(st.w, path)
        ELSE IF st.w.disk[path] = Absent
             THEN UploadExcept([st.w EXCEPT !.tr.missed = @ + 1], path)
        ELSE IF a.fail = "persist" THEN UploadExcept(w2, path)
        ELSE Return([w2 EXCEPT !.records = @ \cup {schema}], st.url)

\* download_and_decompress, "except Exception" (main.py:142-146)
DownloadExceptNoUnlink(w, path) ==
    IF path = Unbound THEN Raise(w, "UnboundLocalError") ELSE Return(w, False)

DownloadExcept(w, path) ==
    IF path = Unbound THEN Raise(w, "UnboundLocalError")
    ELSE IF w.disk[path] # Absent THEN Return(Unlink(w, path), False)
    ELSE Return(w, False)

\* download_and_decompress from the statement after "async with" to the end of
\* the try block (main.py:130-141)
DownloadTry(w0, a, path) ==
    LET key == DownloadKey(a.folder_path, a.object_name)
        df == DownloadFile(w0, a, key, path)
        dc == Decompress(df.w, a, path)
        Cleanup(w) == IF w.disk[path] # Absent THEN Unlink(w, path) ELSE w
    IN  IF AwaitRaises("download_file") THEN DownloadExcept(df.w, path)
        ELSE IF ~df.success THEN Return(Cleanup(df.w), False)
        ELSE IF dc.raised \/ AwaitRaises("decompress") THEN DownloadExcept(dc.w, path)
        ELSE Return(Cleanup(dc.w), True)

\* utils.ExceptionHandler.try_except, the decorator of compress_and_upload
\* (main.py:48): an exception that leaves the function body becomes the
\* absent result.
TryExcept(w) ==
    IF w.outcome = "raised" THEN [w EXCEPT !.outcome = "returned", !.value = None] ELSE w

\* NamedTemporaryFile(delete=False) picks a name no existing file has; which
\* of the free names it is makes no difference, the model takes the least.
FreeNames(d) ==
    LET free == {p \in TempNames : d[p] = Absent}
    IN  {p \in free : \A q \in free : p <= q}

\* what is on disk of the call's temporary file when the call ends
AtExit(w, path) ==
    IF ~w.tr.created THEN "none"
    ELSE IF w.disk[path] = Absent THEN "gone" ELSE "left"

\* the call c ends in the world w
Finish(c, w) ==
    /\ pc' = [pc EXCEPT ![c] = w.outcome]
    /\ result' = [result EXCEPT ![c] = IF w.outcome = "returned" THEN w.value ELSE NoResult]
    /\ disk' = w.disk
    /\ bucket' = w.bucket
    /\ records' = w.records
    /\ outfile' = [outfile EXCEPT ![c] = w.outfile]
    /\ trace' = [trace EXCEPT ![c] = [w.tr EXCEPT !.atExit = AtExit(w, compressed_path[c])]]
    /\ UNCHANGED <<arg, compressed_path, probe>>

UploadArgs(c) ==
    {a \in [op : {"upload"}, object_name : {FileName(c)}, folder_path : Folders,
            format : Formats, fail : UploadFails] :
        a.format \notin Strategies => a.fail = "none"}

\* a download names an object the bucket holds from the start, one it does
\* not hold, the name the first upload was given, or that name with the
\* format appended (as main.py:174 does); its format is the blob's, another
\* tag of the table, or a tag outside it
DownloadFormats == {"zstd", "gz", "rar"}
DownloadNames == Names \cup {FileName(1), FileName(1) \o <<Dot, "zstd">>}
DownloadArgs ==
    {a \in [op : {"download"}, object_name : DownloadNames, folder_path : Folders,
            format : DownloadFormats, fail : DownloadFails] :
        /\ a.fail # "none" => (a.object_name = <<"a.html">> /\ a.format = "zstd")
        /\ a.format = "gz" => a.object_name = <<"a.html">>
        /\ a.object_name \notin Names => a.format = "zstd"}

\* a task starts compress_and_upload and runs to the first await, the
\* "async with aiofiles.tempfile.NamedTemporaryFile" of main.py:70
CallUpload(c) ==
    /\ pc[c] = "idle"
    /\ \E a \in UploadArgs(c) : arg' = [arg EXCEPT ![c] = a]
    /\ pc' = [pc EXCEPT ![c] = "aenter"]
    /\ UNCHANGED <<compressed_path, disk, outfile, bucket, records, result, trace, probe>>

\* a task starts download_and_decompress (main.py:121-127)
CallDownload(c) ==
    /\ pc[c] = "idle"
    /\ \E a \in DownloadArgs : arg' = [arg EXCEPT ![c] = a]
    /\ pc' = [pc EXCEPT ![c] = "aenter"]
    /\ UNCHANGED <<compressed_path, disk, outfile, bucket, records, result, trace, probe>>

\* the temporary file is made and its name bound (main.py:70-71, 127-128);
\* the task then waits for the context manager to close the file
TempFileCreated(c) ==
    /\ pc[c] = "aenter"
    /\ arg[c].fail # "tmp"
    /\ \E p \in FreeNames(disk) :
        /\ disk' = [disk EXCEPT ![p] = EmptyFile]
        /\ compressed_path' = [compressed_path EXCEPT ![c] = p]
    /\ trace' = [trace EXCEPT ![c].created = TRUE]
    /\ pc' = [pc EXCEPT ![c] = "aexit"]
    /\ UNCHANGED <<arg, outfile, bucket, records, result, probe>>

\* making the temporary file raises: the except block runs with the name unbound
TempFileFailed(c) ==
    /\ pc[c] = "aenter"
    /\ arg[c].fail = "tmp"
    /\ IF arg[c].op = "upload"
       THEN Finish(c, TryExcept(UploadExcept(World(c), compressed_path[c])))
       ELSE Finish(c, DownloadExcept(World(c), compressed_path[c]))

\* compress_and_upload resumes after the "async with" and runs to its end
UploadRun(c) ==
    /\ pc[c] = "aexit"
    /\ arg[c].op = "upload"
    /\ Finish(c, TryExcept(UploadTry(World(c), c, arg[c], compressed_path[c])))

\* download_and_decompress resumes after the "async with" and runs to its end
DownloadRun(c) ==
    /\ pc[c] = "aexit"
    /\ arg[c].op = "download"
    /\ Finish(c, DownloadTry(World(c), arg[c], compressed_path[c]))

Suspended == {c \in Calls : pc[c] \in {"aenter", "aexit"}}

\* the caller cancels the batch: CancelledError is thrown into every suspended
\* task at its await; it is a BaseException, so "except Exception" (main.py:97,
\* 142) does not run
CancelBatch ==
    /\ Suspended # {}
    /\ pc' = [c \in Calls |-> IF c \in Suspended THEN "cancelled" ELSE pc[c]]
    /\ trace' = [c \in Calls |->
                    IF c \in Suspended
                    THEN [trace[c] EXCEPT !.atExit =
                              IF ~trace[c].created THEN "none"
                              ELSE IF disk[compressed_path[c]] = Absent THEN "gone"
                              ELSE "left"]
                    ELSE trace[c]]
    /\ UNCHANGED <<arg, compressed_path, disk, outfile, bucket, records, result, probe>>

Next ==
    \/ \E c \in Calls : CallUpload(c)
    \/ \E c \in Calls : CallDownload(c)
    \/ \E c \in Calls : TempFileCreated(c)
    \/ \E c \in Calls : TempFileFailed(c)
    \/ \E c \in Calls : UploadRun(c)
    \/ \E c \in Calls : DownloadRun(c)
    \/ CancelBatch

Spec == Init /\ [][Next]_vars

TypeOK ==
    /\ pc \in [Calls -> {"idle", "aenter", "aexit", "returned", "raised", "cancelled"}]
    /\ \A c \in Calls : compressed_path[c] \in TempNames \cup {Unbound}


\* ------------------------------------------------------------------ key derivation
\* The key derivation applied to every (folder_path, object_name, format) of a
\* bounded set: folder paths of up to MaxTok tokens, with separators anywhere.
KeyTokens == {"data", Sep}
KeyFolders ==
    UNION {[1..n -> KeyTokens] : n \in 0..MaxTok} \cup {<<"data", Sep, "html", Sep>>}
KeyNames == {<<"x">>, <<Sep, "x">>, <<"x", Sep, Sep, "y">>}
KeyFormats == {"zstd", "gz"}

KeyInit ==
    /\ pc = [c \in Calls |-> "idle"]
    /\ arg = [c \in Calls |-> NoArg]
    /\ compressed_path = [c \in Calls |-> Unbound]
    /\ disk = [p \in TempNames |-> Absent]
    /\ outfile = [c \in Calls |-> Absent]
    /\ bucket = InitBucket
    /\ records = {}
    /\ result = [c \in Calls |-> NoResult]
    /\ trace = [c \in Calls |-> NoTrace]
    /\ probe \in [fn : {"upload_key", "download_key"}, folder_path : KeyFolders,
                  object_name : KeyNames, format : KeyFormats, done : {FALSE},
                  out : {<<>>}]

\* main.py:77-79 applied to the inputs
DeriveUploadKey ==
    /\ probe.fn = "upload_key" /\ ~probe.done
    /\ probe' = [probe EXCEPT !.done = TRUE,
                              !.out = UploadKey(probe.folder_path, probe.object_name,
                                                probe.format)]
    /\ UNCHANGED <<pc, arg, compressed_path, disk, outfile, bucket, records, result, trace>>

\* main.py:122-125 applied to the inputs
DeriveDownloadKey ==
    /\ probe.fn = "download_key" /\ ~probe.done
    /\ probe' = [probe EXCEPT !.done = TRUE,
                              !.out = DownloadKey(probe.folder_path, probe.object_name)]
    /\ UNCHANGED <<pc, arg, compressed_path, disk, outfile, bucket, records, result, trace>>

KeyNext == DeriveUploadKey \/ DeriveDownloadKey

KeySpec == KeyInit /\ [][KeyNext]_vars


\* ------------------------------------------------------------------ properties
IsUpload(c) == arg[c].op = "upload"
IsDownload(c) == arg[c].op = "download"
Ended(c) == pc[c] \in {"returned", "raised"}
IsUrl(v) == v # None /\ v # NoResult
\* no step of the call was made to fail and its format tag is a known one
StepsSucceed(c) == arg[c].fail = "none" /\ arg[c].format \in Strategies
RecordsOf(c) == {r \in records : r.file_name = c}

\* C1: when a compress_and_upload call returns, whether no step failed or the
\* read, the compression, the upload or the record persist failed, the
\* temporary file the call created is no longer on disk.
C1_NoTempFileAfterUpload ==
    \A c \in Calls :
        (IsUpload(c) /\ Ended(c) /\ arg[c].fail # "tmp")
            => (trace[c].created /\ trace[c].atExit = "gone")

\* a call with no failure and a call whose compression failed have both returned
C1_Witness ==
    \E c, d \in Calls :
        /\ IsUpload(c) /\ IsUpload(d) /\ pc[c] = "returned" /\ pc[d] = "returned"
        /\ StepsSucceed(c) /\ arg[d].fail = "compress"
        /\ trace[c].atExit = "gone" /\ trace[d].atExit = "gone"

\* C2: a call of compress_and_upload or download_and_decompress that made a
\* temporary file and ran to its end has deleted that file exactly once: the
\* file is gone, one unlink was made, and no unlink was tried on a missing file.
C2_DeletedExactlyOnce ==
    \A c \in Calls :
        /\ trace[c].unlinks <= 1 /\ trace[c].missed = 0
        /\ (Ended(c) /\ trace[c].created)
               => (trace[c].unlinks = 1 /\ trace[c].atExit = "gone")

\* an upload and a download have both ended after one unlink each
C2_Witness ==
    \E c, d \in Calls :
        /\ IsUpload(c) /\ IsDownload(d) /\ Ended(c) /\ Ended(d)
        /\ trace[c].unlinks = 1 /\ trace[d].unlinks = 1

C4_UrlIffAllStepsSucceed ==
    \A c \in Calls :
        (IsUpload(c) /\ pc[c] = "returned")
            => (IsUrl(result[c]) <=> StepsSucceed(c))

\* C5: a call whose temporary file could not be made ends with its failure
\* result (None for an upload, False for a download), after no deletion and
\* with no second error raised by the except block.
C5_CleanupSafeWithoutTempFile ==
    \A c \in Calls :
        (arg[c].fail = "tmp" /\ pc[c] \notin {"idle", "aenter", "cancelled"})
            => /\ trace[c].error = "none"
               /\ trace[c].unlinks = 0
               /\ pc[c] = "returned"
               /\ result[c] = IF IsUpload(c) THEN None ELSE False

\* C6: a call cancelled after it made its temporary file has deleted the file.
C6_CancelledCallDeletesTempFile ==
    \A c \in Calls :
        (pc[c] = "cancelled" /\ trace[c].created) => trace[c].atExit = "gone"

\* C7: concurrent uploads of distinct files under distinct names never hold
\* the same temporary file, use distinct keys, and when all of them succeed
\* there is one record per call, with the key and the size of its own file.
C7_ConcurrentUploadsIndependent ==
    /\ \A c, d \in Calls :
           (c # d /\ pc[c] = "aexit" /\ pc[d] = "aexit")
               => compressed_path[c] # compressed_path[d]
    /\ (\A c \in Calls : IsUpload(c) /\ pc[c] = "returned" /\ StepsSucceed(c))
           => /\ Cardinality(records) = NumCalls
              /\ \A c \in Calls :
                     \E r \in records :
                         /\ r.file_name = c
                         /\ r.key = UploadKey(arg[c].folder_path, arg[c].object_name,
                                              arg[c].format)
                         /\ r.original_file_size = SizeOf(SourceData(c))
              /\ \A r1, r2 \in records : r1.key = r2.key => r1 = r2

\* C8: when one upload of a batch fails, every other upload whose own steps
\* succeed still stores its blob, saves its record and returns its URL.
C8_FailureDoesNotAbortSiblings ==
    \A c, d \in Calls :
        (/\ c # d /\ IsUpload(c) /\ IsUpload(d)
         /\ Ended(d) /\ ~StepsSucceed(d)
         /\ Ended(c) /\ StepsSucceed(c))
            => /\ pc[c] = "returned"
               /\ trace[c].uploaded
               /\ RecordsOf(c) # {}
               /\ IsUrl(result[c])

\* C9: a download of a key the bucket does not hold, once its temporary file
\* was made, returns False, leaves the output file absent and leaves no
\* temporary file.
C9_MissingKeyDownload ==
    \A c \in Calls :
        (/\ IsDownload(c) /\ Ended(c) /\ trace[c].created
         /\ DownloadKey(arg[c].folder_path, arg[c].object_name) \notin DOMAIN bucket)
            => /\ pc[c] = "returned" /\ result[c] = False
               /\ outfile[c] = Absent
               /\ trace[c].atExit = "gone"

\* a download of a missing key has returned False
C9_Witness ==
    \E c \in Calls :
        /\ IsDownload(c) /\ pc[c] = "returned" /\ arg[c].fail = "none"
        /\ arg[c].format \in Strategies
        /\ DownloadKey(arg[c].folder_path, arg[c].object_name) \notin DOMAIN bucket
        /\ result[c] = False /\ trace[c].atExit = "gone" /\ outfile[c] = Absent


\* ------------------------------------------------------------------ key properties
NoDoubleSep(s) == \A i \in 1..(Len(s) - 1) : ~(s[i] = Sep /\ s[i + 1] = Sep)

\* folder_path with all its trailing separators removed, said without rstrip:
\* the prefix that does not end in a separator and is followed by separators only
Stem(folder_path) ==
    LET n == CHOOSE n \in 0..Len(folder_path) :
                 /\ n = 0 \/ folder_path[n] # Sep
                 /\ \A i \in (n + 1)..Len(folder_path) : folder_path[i] = Sep
    IN  SubSeq(folder_path, 1, n)

ExpectedKey(folder_path, object_name, format) ==
    IF folder_path = <<>> THEN object_name \o <<Dot, format>>
    ELSE Stem(folder_path) \o <<Sep>> \o object_name \o <<Dot, format>>

UploadKeyDerived == probe.fn = "upload_key" /\ probe.done

\* C10 as claimed: the key is the folder path without trailing separator, one
\* separator, object_name.format (object_name.format alone for an empty
\* folder path), and it never contains a double separator.
C10_KeyNeverHasDoubleSeparator ==
    UploadKeyDerived
        => /\ probe.out = ExpectedKey(probe.folder_path, probe.object_name, probe.format)
           /\ NoDoubleSep(probe.out)

\* C10 as amended: the key has that form with all trailing separators of the
\* folder path removed, and it contains a double separator only when the
\* folder path without its trailing separators or the object name contains
\* one, or the object name begins with a separator.
C10_KeyForm ==
    UploadKeyDerived
        => /\ probe.out = ExpectedKey(probe.folder_path, probe.object_name, probe.format)
           /\ (/\ NoDoubleSep(Stem(probe.folder_path))
               /\ NoDoubleSep(probe.object_name)
               /\ probe.object_name[1] # Sep)
                  => NoDoubleSep(probe.out)

\* folder_path "data/html/", object_name "x", format "zstd" gave "data/html/x.zstd"
C10_Witness ==
    /\ UploadKeyDerived
    /\ probe.folder_path = <<"data", Sep, "html", Sep>>
    /\ probe.object_name = <<"x">> /\ probe.format = "zstd"
    /\ probe.out = <<"data", Sep, "html", Sep, "x", Dot, "zstd">>

\* ================================================================== single calls
\* The constructors, list_objects and store_object called on their own, one
\* call per behaviour; probe holds the call's inputs and what it gave back.
MaxLevel == 11
Levels == -1..MaxLevel                       \* compression levels on both sides of 1..9

NoObject == [built |-> FALSE, compression_level |-> 0, public_access |-> FALSE]
NoAcl == {}

NoUnit == [fn |-> "none", done |-> FALSE, level |-> 6, default_access |-> FALSE,
           format |-> "zstd",
           override |-> None, prefix |-> <<>>, fail |-> FALSE, error |-> "none",
           object |-> NoObject, queried |-> <<>>, listed |-> {}, keys |-> {},
           acl |-> NoAcl, url |-> None]

\* a range check that leaves out the highest level
LevelInRangeExclusive(compression_level) ==
    1 <= compression_level /\ compression_level < 9

\* compressor.py:67, "1 <= compression_level <= 9"
LevelInRange(compression_level) ==
    1 <= compression_level /\ compression_level <= 9

\* FileCompressor.__init__ (compressor.py:58-77): ValueError before any
\* attribute is set, else the level is kept as given
FileCompressorInit(compression_level) ==
    IF ~LevelInRange(compression_level)
    THEN [error |-> "ValueError", compression_level |-> 0]
    ELSE [error |-> "none", compression_level |-> compression_level]

\* DigitalOceanStorage.__init__ (digital_ocean.py:22-38) keeps the default flag
DigitalOceanStorageInit(public_access) == [public_access |-> public_access]

\* ObjectStorage.__init__ (main.py:20-29): the storage client first, then the
\* compressor; an exception of either leaves the caller without an object
ObjectStorageInit(compression_level, public_access) ==
    LET storage == DigitalOceanStorageInit(public_access)
        compressor == FileCompressorInit(compression_level)
    IN  IF compressor.error # "none"
        THEN [error |-> compressor.error, object |-> NoObject]
        ELSE [error |-> "none",
              object |-> [built |-> TRUE,
                          compression_level |-> compressor.compression_level,
                          public_access |-> storage.public_access]]

UnitConstructs ==
    {[NoUnit EXCEPT !.fn = "construct", !.level = l, !.default_access = d] :
        l \in Levels, d \in BOOLEAN}

\* ObjectStorage(bucket_name, compression_level, public_access)
Construct ==
    /\ probe.fn = "construct" /\ ~probe.done
    /\ LET r == ObjectStorageInit(probe.level, probe.default_access)
       IN  probe' = [probe EXCEPT !.done = TRUE, !.error = r.error, !.object = r.object]
    /\ UNCHANGED <<pc, arg, compressed_path, disk, outfile, bucket, records, result, trace>>

\* ------------------------------------------------------------------ list_objects
\* a normalisation that appends the separator to every non-empty prefix
NormalizePrefixAlways(prefix) ==
    IF prefix # <<>> THEN prefix \o <<Sep>> ELSE prefix

\* main.py:41-42, "if prefix and not prefix.endswith('/'): prefix += '/'"
NormalizePrefix(prefix) ==
    IF prefix # <<>> /\ prefix[Len(prefix)] # Sep THEN prefix \o <<Sep>> ELSE prefix

\* key.startswith(prefix), the Prefix filter of list_objects_v2
IsPrefix(prefix, key) ==
    Len(prefix) <= Len(key) /\ SubSeq(key, 1, Len(prefix)) = prefix

\* DigitalOceanStorage.list_objects (digital_ocean.py:79-95): the keys of the
\* response, no keys when the response has no 'Contents' or the call raised
StorageListObjects(b, prefix, fail) ==
    IF fail THEN {} ELSE {k \in DOMAIN b : IsPrefix(prefix, k)}

\* ObjectStorage.list_objects (main.py:31-46): the prefix it queries, the list
\* the storage client gave back, and the list it returns; "await" of the list
\* raises inside the try block and the except block returns []
ListObjects(b, prefix, fail) ==
    LET queried == NormalizePrefix(prefix)
        listed == StorageListObjects(b, queried, fail)
    IN  [queried |-> queried, listed |-> listed,
         keys |-> IF AwaitRaises("list_objects") THEN {} ELSE listed]

\* the keys a bucket may hold before list_objects is called
ListedKeys == {<<"data", Sep, "a.html">>, <<"data", ".bak">>, <<"html", Sep, "b.html">>}
Blob == StrategyCompress("zstd", [codec |-> "raw", data |-> 1])
UnitBuckets == {[k \in ks |-> Blob] : ks \in SUBSET ListedKeys}

RECURSIVE SeqsUpTo(_, _)
SeqsUpTo(S, n) ==
    IF n = 0 THEN {<<>>}
    ELSE LET shorter == SeqsUpTo(S, n - 1)
         IN  shorter \cup {Append(s, t) : s \in shorter, t \in S}

Prefixes == SeqsUpTo({"data", "html", Sep}, MaxTok)

UnitLists ==
    {[NoUnit EXCEPT !.fn = "list_objects", !.prefix = p, !.fail = f] :
        p \in Prefixes, f \in BOOLEAN}

\* await storage.list_objects(prefix) (main.py:166)
CallListObjects ==
    /\ probe.fn = "list_objects" /\ ~probe.done
    /\ LET r == ListObjects(bucket, probe.prefix, probe.fail)
       IN  probe' = [probe EXCEPT !.done = TRUE, !.queried = r.queried,
                                  !.listed = r.listed, !.keys = r.keys]
    /\ UNCHANGED <<pc, arg, compressed_path, disk, outfile, bucket, records, result, trace>>

\* ------------------------------------------------------------------ store_object
\* "public_access or self.public_access": an explicit False falls to the default
ResolvePublicAccessOr(public_access, default) ==
    IF public_access = True THEN TRUE ELSE default

\* digital_ocean.py:66, "public_access if public_access is not None else
\* self.public_access"
ResolvePublicAccess(public_access, default) ==
    IF public_access # None THEN public_access = True ELSE default

\* digital_ocean.py:72, the ExtraArgs of upload_file
ExtraArgs(public_access) ==
    IF public_access THEN {<<"ACL", "public-read">>} ELSE {}

UnitPath == 1                                \* the local file store_object is given
UnitKey == <<"data", Sep, "html", Sep, "file1", Dot, "zstd">>

UnitStores ==
    {[NoUnit EXCEPT !.fn = "store_object", !.override = o, !.default_access = d,
                    !.fail = f] :
        o \in {None, True, False}, d \in BOOLEAN, f \in BOOLEAN}

\* storage.store_object(file_path, key, public_access) on a client built with
\* the default flag (digital_ocean.py:55-77; main.py:83 passes the caller's
\* public_access through unchanged)
CallStoreObject ==
    /\ probe.fn = "store_object" /\ ~probe.done
    /\ LET storage == DigitalOceanStorageInit(probe.default_access)
           public_access == ResolvePublicAccess(probe.override, storage.public_access)
           a == [NoArg EXCEPT !.fail = IF probe.fail THEN "upload" ELSE "none"]
           st == StoreObject(World(1), a, UnitPath, UnitKey)
       IN  /\ bucket' = st.w.bucket
           /\ probe' = [probe EXCEPT !.done = TRUE, !.acl = ExtraArgs(public_access),
                                     !.url = st.url]
    /\ UNCHANGED <<pc, arg, compressed_path, disk, outfile, records, result, trace>>

\* ------------------------------------------------------------------ compress, decompress
UnitOutput == 2                              \* the output path compress is given

\* what the caller of compress or decompress sees raised
Raised(r) ==
    IF ~r.raised THEN "none"
    ELSE IF r.w.tr.format_error # NoError THEN r.w.tr.format_error.type
    ELSE "Exception"

UnitCompresses ==
    {[NoUnit EXCEPT !.fn = "compress", !.format = f, !.fail = x] :
        f \in DownloadFormats, x \in BOOLEAN}

\* compressor.compress(input_file, output_file, format), called without await
CallCompress ==
    /\ probe.fn = "compress" /\ ~probe.done
    /\ LET a == [NoArg EXCEPT !.format = probe.format,
                              !.fail = IF probe.fail THEN "read" ELSE "none"]
           r == Compress(World(1), 1, a, UnitOutput)
       IN  /\ disk' = r.w.disk
           /\ trace' = [trace EXCEPT ![1] = r.w.tr]
           /\ probe' = [probe EXCEPT !.done = TRUE, !.error = Raised(r)]
    /\ UNCHANGED <<pc, arg, compressed_path, outfile, bucket, records, result>>

UnitDecompresses ==
    {[NoUnit EXCEPT !.fn = "decompress", !.format = f] : f \in DownloadFormats}

\* compressor.decompress(input_file, output_file, format), called without
\* await, on a file zstd made
CallDecompress ==
    /\ probe.fn = "decompress" /\ ~probe.done
    /\ LET a == [NoArg EXCEPT !.format = probe.format]
           r == Decompress(World(1), a, UnitPath)
       IN  /\ outfile' = [outfile EXCEPT ![1] = r.w.outfile]
           /\ trace' = [trace EXCEPT ![1] = r.w.tr]
           /\ probe' = [probe EXCEPT !.done = TRUE, !.error = Raised(r)]
    /\ UNCHANGED <<pc, arg, compressed_path, disk, bucket, records, result>>

UnitUploads ==
    {[NoUnit EXCEPT !.fn = "compress_and_upload", !.format = f] : f \in DownloadFormats}

\* one compress_and_upload call run from its start to its end with no other
\* task in between (main.py:69-101)
CallCompressAndUpload ==
    /\ probe.fn = "compress_and_upload" /\ ~probe.done
    /\ LET a == [NoArg EXCEPT !.op = "upload", !.object_name = FileName(1),
                              !.folder_path = <<"data", Sep, "html">>,
                              !.format = probe.format]
           path == CHOOSE p \in FreeNames(disk) : TRUE
           w0 == [World(1) EXCEPT !.disk[path] = EmptyFile, !.tr.created = TRUE]
           w == TryExcept(UploadTry(w0, 1, a, path))
       IN  /\ arg' = [arg EXCEPT ![1] = a]
           /\ compressed_path' = [compressed_path EXCEPT ![1] = path]
           /\ pc' = [pc EXCEPT ![1] = w.outcome]
           /\ result' = [result EXCEPT ![1] = w.value]
           /\ disk' = w.disk
           /\ bucket' = w.bucket
           /\ records' = w.records
           /\ trace' = [trace EXCEPT ![1] = [w.tr EXCEPT !.atExit = AtExit(w, path)]]
           /\ probe' = [probe EXCEPT !.done = TRUE,
                                     !.error = IF w.tr.format_error # NoError
                                               THEN w.tr.format_error.type ELSE "none"]
    /\ UNCHANGED outfile

\* ------------------------------------------------------------------ the single-call specification
UnitInit ==
    /\ pc = [c \in Calls |-> "idle"]
    /\ arg = [c \in Calls |-> NoArg]
    /\ compressed_path = [c \in Calls |-> Unbound]
    /\ disk = [p \in TempNames |-> IF p = UnitPath THEN Blob ELSE Absent]
    /\ records = {}
    /\ result = [c \in Calls |-> NoResult]
    /\ trace = [c \in Calls |-> NoTrace]
    /\ probe \in UnitConstructs \cup UnitLists \cup UnitStores \cup UnitCompresses
                  \cup UnitDecompresses \cup UnitUploads
    /\ outfile \in IF probe.fn = "decompress"
                    THEN {[c \in Calls |-> f] : f \in {Absent, EmptyFile}}
                    ELSE {[c \in Calls |-> Absent]}
    /\ bucket \in IF probe.fn = "list_objects" THEN UnitBuckets ELSE {InitBucket}

UnitNext ==
    \/ Construct
    \/ CallListObjects
    \/ CallStoreObject
    \/ CallCompress
    \/ CallDecompress
    \/ CallCompressAndUpload

UnitSpec == UnitInit /\ [][UnitNext]_vars

\* ------------------------------------------------------------------ C11
Constructed == probe.fn = "construct" /\ probe.done

\* C11: construction succeeds exactly when 1 <= level <= 9; a level outside
\* the range raises at construction and leaves no object; a level inside is
\* stored unchanged.
C11_LevelRangeAtConstruction ==
    Constructed
        => /\ probe.object.built <=> (1 <= probe.level /\ probe.level <= 9)
           /\ probe.object.built
                  => /\ probe.error = "none"
                     /\ probe.object.compression_level = probe.level
                     /\ probe.object.public_access = probe.default_access
           /\ ~probe.object.built
                  => probe.error = "ValueError" /\ probe.object = NoObject

\* level 9 was accepted and stored
C11_Witness ==
    /\ Constructed /\ probe.level = 9
    /\ probe.object.built /\ probe.object.compression_level = 9

\* ------------------------------------------------------------------ C12
Listed == probe.fn = "list_objects" /\ probe.done

\* C12: list_objects queries a non-empty prefix without a trailing separator
\* as prefix + "/", and a prefix that ends in "/" and the empty prefix as they
\* are; normalising the queried prefix again changes nothing, and the call
\* with prefix + "/" queries, lists and returns the same as the call with prefix.
C12_PrefixNormalised ==
    Listed
        => LET p == probe.prefix
               withSep == ListObjects(bucket, p \o <<Sep>>, probe.fail)
           IN  /\ (p # <<>> /\ p[Len(p)] # Sep) => probe.queried = p \o <<Sep>>
               /\ (p # <<>> /\ p[Len(p)] = Sep) => probe.queried = p
               /\ p = <<>> => probe.queried = <<>>
               /\ NormalizePrefix(probe.queried) = probe.queried
               /\ (p # <<>> /\ p[Len(p)] # Sep)
                      => /\ withSep.queried = probe.queried
                         /\ withSep.listed = probe.listed
                         /\ withSep.keys = probe.keys

\* list_objects("data") on a bucket that holds data/a.html and data.bak
\* queried "data/" and the storage client listed data/a.html alone
C12_Witness ==
    /\ Listed /\ probe.prefix = <<"data">> /\ ~probe.fail
    /\ DOMAIN bucket = {<<"data", Sep, "a.html">>, <<"data", ".bak">>}
    /\ probe.queried = <<"data", Sep>>
    /\ probe.listed = {<<"data", Sep, "a.html">>}

\* ------------------------------------------------------------------ C13
\* C13: list_objects returns exactly the keys the bucket holds under the
\* normalised prefix, and no keys (without raising) when nothing matches or
\* when the remote listing failed.
C13_ListReturnsKeysUnderPrefix ==
    Listed
        => probe.keys = IF probe.fail THEN {}
                        ELSE {k \in DOMAIN bucket : IsPrefix(NormalizePrefix(probe.prefix), k)}

\* ------------------------------------------------------------------ C14
Stored == probe.fn = "store_object" /\ probe.done

\* C14: store_object uploads with the per-call override when one is given
\* (True or False) and with the client's default when none is given.
C14_OverrideBeatsDefault ==
    Stored
        => LET public == <<"ACL", "public-read">> \in probe.acl
           IN  /\ probe.override = True => public
               /\ probe.override = False => ~public
               /\ probe.override = None => (public <=> probe.default_access)

\* an explicit False on a client whose default is True made a private upload
\* that reached the bucket
C14_Witness ==
    /\ Stored /\ probe.override = False /\ probe.default_access
    /\ probe.acl = {} /\ UnitKey \in DOMAIN bucket /\ probe.url = ObjectUrl(UnitKey)

C16_RecordDescribesTransfer ==
    \A c \in Calls :
        (IsUpload(c) /\ pc[c] = "returned" /\ StepsSucceed(c))
            => LET key == UploadKey(arg[c].folder_path, arg[c].object_name, arg[c].format)
               IN  \E r \in RecordsOf(c) :
                       /\ key \in DOMAIN bucket
                       /\ r.key = key
                       /\ r.file_url = ObjectUrl(key) /\ r.file_url = result[c]
                       /\ r.file_compression_type = arg[c].format
                       /\ r.original_file_size = SizeOf(SourceData(c))
                       /\ r.compressed_file_size = SizeOf(bucket[key])

\* ------------------------------------------------------------------ C17
\* the bucket holds the blob the download asks for, the transfer works, and
\* the blob was not made by the codec of the requested format
FetchedBlobOfOtherFormat(c) ==
    LET key == DownloadKey(arg[c].folder_path, arg[c].object_name)
    IN  /\ IsDownload(c) /\ arg[c].fail = "none" /\ arg[c].format \in Strategies
        /\ key \in DOMAIN bucket
        /\ ~CanDecompress(arg[c].format, bucket[key])

UsedCompressor == probe.fn \in {"compress", "decompress", "compress_and_upload"} /\ probe.done

\* C18: compress and decompress refuse a format tag outside the table with a
\* ValueError that names the tags of the table, before reading any input or
\* writing any output, and they refuse no tag of the table that way; a
\* compress_and_upload call given such a tag returns None, with nothing
\* uploaded, no record and no temporary file left.
C18_UnknownFormatRejectedFirst ==
    UsedCompressor
        => /\ probe.format \in {"gz", "bz2", "xz", "lzma", "zlib", "zstd"}
                  => trace[1].format_error = NoError
           /\ probe.format \notin {"gz", "bz2", "xz", "lzma", "zlib", "zstd"}
                  => /\ probe.error = "ValueError"
                     /\ trace[1].format_error.tags = {"gz", "bz2", "xz", "lzma", "zlib", "zstd"}
                     /\ ~trace[1].read /\ ~trace[1].compressed
                     /\ disk[UnitOutput] = Absent
                     /\ probe.fn = "decompress" => outfile[1] \in {Absent, EmptyFile}
                     /\ probe.fn = "compress_and_upload"
                            => /\ pc[1] = "returned" /\ result[1] = None
                               /\ bucket = InitBucket /\ records = {}
                               /\ trace[1].created /\ trace[1].atExit = "gone"
                               /\ \A p \in TempNames \ {UnitPath} : disk[p] = Absent

\* compress_and_upload with the tag "rar" has returned None after the
\* compressor refused the tag, and its temporary file is gone
C18_Witness ==
    /\ probe.fn = "compress_and_upload" /\ probe.done /\ probe.format = "rar"
    /\ probe.error = "ValueError" /\ result[1] = None
    /\ trace[1].unlinks = 1 /\ ~trace[1].read

\* ------------------------------------------------------------------ C19
\* C19: a compress_and_upload call whose upload works and whose record cannot
\* be built or saved returns None, leaves no record, and leaves the blob in the
\* bucket under the derived key.
C19_BlobStaysWhenRecordFails ==
    \A c \in Calls :
        (IsUpload(c) /\ pc[c] = "returned" /\ arg[c].fail = "persist")
            => /\ result[c] = None
               /\ RecordsOf(c) = {}
               /\ UploadKey(arg[c].folder_path, arg[c].object_name, arg[c].format)
                      \in DOMAIN bucket

\* ------------------------------------------------------------------ C20
\* the download d runs its body after the upload c of the same folder and
\* format, whose steps all succeeded, has returned
DownloadsAfterUpload(c, d) ==
    /\ IsUpload(c) /\ pc[c] = "returned" /\ StepsSucceed(c)
    /\ IsDownload(d) /\ arg[d].fail = "none"
    /\ arg[d].folder_path = arg[c].folder_path /\ arg[d].format = arg[c].format
    /\ pc[d] = "aexit" /\ pc'[d] = "returned"

\* C20: after a successful upload under the name N, a download of N asks for
\* another key than the upload's and does not bring the upload back, and a
\* download of N.format asks for the upload's key, returns True and writes
\* the content of the uploaded file to its output.
C20_DownloadNeedsFormatInName ==
    [][\A c, d \in Calls :
          DownloadsAfterUpload(c, d)
              => LET uploaded == UploadKey(arg[c].folder_path, arg[c].object_name,
                                           arg[c].format)
                     asked == DownloadKey(arg[d].folder_path, arg[d].object_name)
                 IN  /\ arg[d].object_name = arg[c].object_name
                            => asked # uploaded /\ outfile'[d] # SourceData(c)
                     /\ arg[d].object_name = arg[c].object_name \o <<Dot, arg[c].format>>
                            => /\ asked = uploaded
                               /\ result'[d] = True
                               /\ outfile'[d] = SourceData(c)]_vars

====
